---- MODULE Spec2Model ----
(***************************************************************************)
(* PhotoSlider (src/src/PhotoSlider.tsx): the gesture-to-transform state   *)
(* machine of the slider component.                                        *)
(*                                                                         *)
(* Units.  translateX is kept in half pixels (TranslateDen = 2), because   *)
(* the edge clamp divides an integer pixel displacement by 2.              *)
(* backdropOpacity is kept in 1/200ths (OpacityDen = 200), because the     *)
(* pull distance is divided by 100 and then by 2.  Both are exact.         *)
(* The pull-to-close threshold innerHeight * 0.14 is compared exactly, as  *)
(* 100 * |dy| > 14 * innerHeight.                                          *)
(*                                                                         *)
(* An optional number (number | undefined) is the empty tuple when it is   *)
(* undefined and the one-element tuple <<v>> when it is the number v.      *)
(*                                                                         *)
(* React: every handler runs to completion on one event; each setState is  *)
(* followed by getDerivedStateFromProps with the props then current.       *)
(***************************************************************************)
EXTENDS Integers, Sequences, FiniteSets, TLC

\* ---------------------------------------------------------------- bounds
MaxImages == 2

\* ------------------------------------------------------------- constants
\* imported from ./variables (PhotoSlider.tsx line 15)
maxMoveOffset == 40
horizontalOffset == 20
defaultOpacity == 1
\* offsetClientX / 2 (line 210)
TranslateDen == 2
\* offsetClientY / 100 / 2 (line 178)
OpacityDen == 200
\* window.innerHeight * 0.14 (line 299)
PullCloseNum == 14
PullCloseDen == 100

\* ---------------------------------------------------------------- inputs
undefined == << >>
Num(v) == <<v>>
Val(o) == o[1]

Abs(x) == IF x < 0 THEN -x ELSE x
Min(a, b) == IF a < b THEN a ELSE b
Max(a, b) == IF a > b THEN a ELSE b

\* pointer coordinates: the differences are 0, 1, maxMoveOffset and
\* maxMoveOffset + 1, in both directions
ClientXs == {0, 1, maxMoveOffset + 1}
\* the differences are the pull-to-close threshold of the taller window
\* (above that of the other one) and two distances beyond the one at which
\* the opacity reaches 0
ClientYs == {0, 14, 300}
\* PhotoView's scale: 1 is unzoomed
Scales == {1, 2}
ReachTypes == {"Normal", "XReach", "YReach"}
\* handleReachMove's arguments: a horizontal reach reads clientX only, a
\* vertical one clientY and scale only, any other state reads nothing
ReachMoves(xs, ys) ==
  {<<"XReach", x, 0, 1>> : x \in xs}
    \cup {<<"YReach", 0, y, s>> : y \in ys, s \in Scales}
    \cup {<<"Normal", 0, 0, 1>>}
\* the coordinates of the specification with every handler
TapXs == {0, maxMoveOffset + 1}
TapYs == {0, 300}
Keys == {"ArrowLeft", "ArrowRight", "Escape", "Enter"}
Windows == {[innerWidth |-> 100, innerHeight |-> 100],
            [innerWidth |-> 150, innerHeight |-> 50]}

VARIABLES
  \* PhotoSliderState
  translateX, photoIndex, touched, shouldTransition, lastClientX, lastClientY,
  backdropOpacity, overlayVisible, canPullClose,
  \* props
  images, index,
  \* environment
  window, resizePending, mounted,
  \* observation of the last handler: its name, the calls it made to
  \* props.onClose and props.onIndexChange, and whether every vertical move
  \* since the last release was reported with scale # 1
  call, onCloseCalls, onIndexChangeCalls, gestureZoomed

state == <<translateX, photoIndex, touched, shouldTransition, lastClientX,
           lastClientY, backdropOpacity, overlayVisible, canPullClose>>
props == <<images, index>>
env == <<window, resizePending, mounted>>
vars == <<state, props, env, call, onCloseCalls, onIndexChangeCalls,
          gestureZoomed>>

\* --------------------------------------------------------------- helpers
\* -(window.innerWidth + horizontalOffset) * photoIndex, in half pixels
RestTranslateX(innerWidth, i) ==
  -((innerWidth + horizontalOffset) * i) * TranslateDen

\* a getDerivedStateFromProps that never follows the index prop
getDerivedStateFromProps_Ignored(nextIndex, prevIdx, prevX, innerWidth) ==
  <<prevIdx, prevX>>

\* static getDerivedStateFromProps: <<photoIndex, translateX>>
getDerivedStateFromProps(nextIndex, prevPhotoIdx, prevTranslateX, innerWidth) ==
  IF nextIndex # undefined /\ Val(nextIndex) # prevPhotoIdx
  THEN <<Val(nextIndex), RestTranslateX(innerWidth, Val(nextIndex))>>
  ELSE <<prevPhotoIdx, prevTranslateX>>

\* an edge clamp that halves every drag on the first image
OffsetClientX_AnyDirection(originOffsetClientX, idx, length) ==
  IF \/ idx = 0
     \/ (idx = length - 1 /\ originOffsetClientX < 0)
  THEN originOffsetClientX
  ELSE originOffsetClientX * TranslateDen

\* the displacement applied by a horizontal move, in half pixels
OffsetClientX(originOffsetClientX, idx, length) ==
  IF \/ (idx = 0 /\ originOffsetClientX > 0)
     \/ (idx = length - 1 /\ originOffsetClientX < 0)
  THEN originOffsetClientX
  ELSE originOffsetClientX * TranslateDen

\* an opacity computed from the signed distance
Opacity_Signed(clientY, lastY) ==
  Max(Min(defaultOpacity * OpacityDen,
          defaultOpacity * OpacityDen - (clientY - lastY)), 0)

\* the backdrop opacity of a vertical pull, in 1/200ths
Opacity(clientY, lastY) ==
  Max(Min(defaultOpacity * OpacityDen,
          defaultOpacity * OpacityDen - Abs(clientY - lastY)), 0)

\* page-turn conditions that include the threshold, or forget the first image
IsNext_Inclusive(offsetClientX, idx, length) ==
  offsetClientX <= -maxMoveOffset /\ idx < length - 1
IsPrevious_Unbounded(offsetClientX, idx) ==
  offsetClientX > maxMoveOffset
\* a close condition that forgets canPullClose
IsPullClose_Always(offsetClientY, innerHeight, pullClose) ==
  Abs(offsetClientY) * PullCloseDen > innerHeight * PullCloseNum

\* handleReachUp's page-turn conditions
IsNext(offsetClientX, idx, length) ==
  offsetClientX < -maxMoveOffset /\ idx < length - 1
IsPrevious(offsetClientX, idx) ==
  offsetClientX > maxMoveOffset /\ idx > 0
\* handleReachUp's close condition
IsPullClose(offsetClientY, innerHeight, pullClose) ==
  /\ Abs(offsetClientY) * PullCloseDen > innerHeight * PullCloseNum
  /\ pullClose

\* setState of photoIndex and translateX, then getDerivedStateFromProps
SetIndexAndTranslate(idx, tx, nextIndex) ==
  LET d == getDerivedStateFromProps(nextIndex, idx, tx, window.innerWidth)
  IN  /\ photoIndex' = d[1]
      /\ translateX' = d[2]

Observe(op, closes, changes) ==
  /\ call' = op
  /\ onCloseCalls' = closes
  /\ onIndexChangeCalls' = changes

\* ------------------------------------------------------------------ Init
Init ==
  /\ \E n \in 0..MaxImages : images = [i \in 1..n |-> i]
  /\ index \in {undefined} \cup {Num(i) : i \in 0..Max(Len(images) - 1, 0)}
  /\ window \in Windows
  /\ resizePending = FALSE
  /\ mounted = FALSE
  \* constructor, then getDerivedStateFromProps of the first render
  /\ photoIndex = getDerivedStateFromProps(index, 0, 0, window.innerWidth)[1]
  /\ translateX = getDerivedStateFromProps(index, 0, 0, window.innerWidth)[2]
  /\ touched = FALSE
  /\ shouldTransition = TRUE
  /\ lastClientX = undefined
  /\ lastClientY = undefined
  /\ backdropOpacity = defaultOpacity * OpacityDen
  /\ overlayVisible = TRUE
  /\ canPullClose = TRUE
  /\ call = "constructor"
  /\ onCloseCalls = 0
  /\ onIndexChangeCalls = << >>
  /\ gestureZoomed = TRUE

\* --------------------------------------------------------------- actions
\* render: a PhotoView, with the reach, tap and resize callbacks, exists for
\* the images around photoIndex only
PhotoViewRendered == mounted /\ Len(images) > 0

ComponentDidMount ==
  /\ ~mounted
  /\ mounted' = TRUE
  /\ LET i == IF index = undefined THEN 0 ELSE Val(index)
     IN  SetIndexAndTranslate(
           i, (i * (-(window.innerWidth + horizontalOffset))) * TranslateDen,
           index)
  /\ Observe("componentDidMount", 0, << >>)
  /\ UNCHANGED <<touched, shouldTransition, lastClientX, lastClientY,
                 backdropOpacity, overlayVisible, canPullClose, props, window,
                 resizePending, gestureZoomed>>

\* handleClose: props.onClose(), then setState({overlayVisible: true})
HandleClose(op) ==
  /\ overlayVisible' = TRUE
  /\ SetIndexAndTranslate(photoIndex, translateX, index)
  /\ Observe(op, 1, << >>)
  /\ UNCHANGED <<touched, shouldTransition, lastClientX, lastClientY,
                 backdropOpacity, canPullClose, images, index, env,
                 gestureZoomed>>

\* a handler that returns without setState or callback
NoUpdate(op) ==
  /\ Observe(op, 0, << >>)
  /\ UNCHANGED <<state, props, env, gestureZoomed>>

HandlePhotoTap(photoClosable) ==
  /\ PhotoViewRendered
  /\ IF photoClosable
     THEN HandleClose("handlePhotoTap")
     ELSE /\ overlayVisible' = ~overlayVisible
          /\ SetIndexAndTranslate(photoIndex, translateX, index)
          /\ Observe("handlePhotoTap", 0, << >>)
          /\ UNCHANGED <<touched, shouldTransition, lastClientX, lastClientY,
                         backdropOpacity, canPullClose, props, env,
                         gestureZoomed>>

HandlePhotoMaskTap(maskClosable) ==
  /\ PhotoViewRendered
  /\ IF maskClosable
     THEN HandleClose("handlePhotoMaskTap")
     ELSE NoUpdate("handlePhotoMaskTap")

\* the window is resized; a PhotoView reports it through onPhotoResize, which
\* arms the timer of the debounced handleResize
WindowResize ==
  /\ mounted
  /\ window' \in Windows \ {window}
  /\ resizePending' = PhotoViewRendered
  /\ Observe("resize", 0, << >>)
  /\ UNCHANGED <<state, props, mounted, gestureZoomed>>

\* a handleResize that forgets translateX
HandleResize_KeepOffset ==
  /\ mounted
  /\ resizePending
  /\ resizePending' = FALSE
  /\ SetIndexAndTranslate(photoIndex, translateX, index)
  /\ lastClientX' = undefined
  /\ lastClientY' = undefined
  /\ Observe("handleResize", 0, << >>)
  /\ UNCHANGED <<touched, shouldTransition, backdropOpacity, overlayVisible,
                 canPullClose, props, window, mounted, gestureZoomed>>

\* the debounce timer fires: handleResize
HandleResize ==
  /\ mounted
  /\ resizePending
  /\ resizePending' = FALSE
  /\ SetIndexAndTranslate(photoIndex,
                          RestTranslateX(window.innerWidth, photoIndex), index)
  /\ lastClientX' = undefined
  /\ lastClientY' = undefined
  /\ Observe("handleResize", 0, << >>)
  /\ UNCHANGED <<touched, shouldTransition, backdropOpacity, overlayVisible,
                 canPullClose, props, window, mounted, gestureZoomed>>

HandleReachVerticalMove(clientY, scale) ==
  /\ IF lastClientY = undefined
     THEN /\ lastClientY' = Num(clientY)
          /\ backdropOpacity' = backdropOpacity
          /\ canPullClose' = TRUE
     ELSE /\ lastClientY' = lastClientY
          /\ backdropOpacity' = IF scale = 1
                                THEN Opacity(clientY, Val(lastClientY))
                                ELSE defaultOpacity * OpacityDen
          /\ canPullClose' = (scale = 1)
  /\ touched' = TRUE
  /\ SetIndexAndTranslate(photoIndex, translateX, index)
  /\ gestureZoomed' = (gestureZoomed /\ scale # 1)
  /\ Observe("handleReachVerticalMove", 0, << >>)
  /\ UNCHANGED <<shouldTransition, lastClientX, overlayVisible, props, env>>

HandleReachHorizontalMove(clientX) ==
  /\ IF lastClientX = undefined
     THEN /\ lastClientX' = Num(clientX)
          /\ SetIndexAndTranslate(photoIndex, translateX, index)
     ELSE /\ lastClientX' = lastClientX
          /\ SetIndexAndTranslate(
               photoIndex,
               RestTranslateX(window.innerWidth, photoIndex)
                 + OffsetClientX(clientX - Val(lastClientX), photoIndex,
                                 Len(images)),
               index)
  /\ touched' = TRUE
  /\ shouldTransition' = TRUE
  /\ Observe("handleReachHorizontalMove", 0, << >>)
  /\ UNCHANGED <<lastClientY, backdropOpacity, overlayVisible, canPullClose,
                 props, env, gestureZoomed>>

HandleReachMove(reachState, clientX, clientY, scale) ==
  /\ PhotoViewRendered
  /\ IF reachState = "XReach"
     THEN HandleReachHorizontalMove(clientX)
     ELSE IF reachState = "YReach"
          THEN HandleReachVerticalMove(clientY, scale)
          ELSE UNCHANGED vars

\* handleIndexChange, called by handler op: setState, then
\* props.onIndexChange(newIndex), which a controlling parent may answer by
\* passing newIndex as the index prop
HandleIndexChange(newIndex, transition, op) ==
  /\ touched' = FALSE
  /\ lastClientX' = undefined
  /\ lastClientY' = undefined
  /\ shouldTransition' = transition
  /\ \E answer \in BOOLEAN :
       /\ index' = IF index # undefined /\ answer THEN Num(newIndex) ELSE index
       /\ LET d == getDerivedStateFromProps(
                     index, newIndex,
                     RestTranslateX(window.innerWidth, newIndex),
                     window.innerWidth)
          IN  SetIndexAndTranslate(d[1], d[2], index')
  /\ Observe(op, 0, <<newIndex>>)
  /\ UNCHANGED <<backdropOpacity, overlayVisible, canPullClose, images,
                 env>>

HandlePrevious(transition, op) ==
  IF photoIndex > 0
  THEN HandleIndexChange(photoIndex - 1, transition, op)
       /\ UNCHANGED gestureZoomed
  ELSE NoUpdate(op)

\* a handleNext that is off by one at the last image
HandleNext_OffByOne(transition, op) ==
  IF photoIndex < Len(images)
  THEN HandleIndexChange(photoIndex + 1, transition, op)
       /\ UNCHANGED gestureZoomed
  ELSE NoUpdate(op)

HandleNext(transition, op) ==
  IF photoIndex < Len(images) - 1
  THEN HandleIndexChange(photoIndex + 1, transition, op)
       /\ UNCHANGED gestureZoomed
  ELSE NoUpdate(op)

\* a handleKeyDown that does not look at props.visible
HandleKeyDown_Ungated(key, visible) ==
  /\ mounted
  /\ CASE key = "ArrowLeft" -> HandlePrevious(FALSE, "handleKeyDown")
       [] key = "ArrowRight" -> HandleNext(FALSE, "handleKeyDown")
       [] key = "Escape" -> HandleClose("handleKeyDown")
       [] OTHER -> NoUpdate("handleKeyDown")

\* props.visible is read by this handler only: it is an input of the event
HandleKeyDown(key, visible) ==
  /\ mounted
  /\ IF visible
     THEN CASE key = "ArrowLeft" ->
                 HandlePrevious(FALSE, "handleKeyDown")
            [] key = "ArrowRight" ->
                 HandleNext(FALSE, "handleKeyDown")
            [] key = "Escape" -> HandleClose("handleKeyDown")
            [] OTHER -> NoUpdate("handleKeyDown")
     ELSE NoUpdate("handleKeyDown")

HandleReachUp(clientX, clientY) ==
  /\ PhotoViewRendered
  /\ LET lastX == IF lastClientX = undefined THEN clientX
                  ELSE Val(lastClientX)
         lastY == IF lastClientY = undefined THEN clientY
                  ELSE Val(lastClientY)
         offsetClientX == clientX - lastX
         offsetClientY == clientY - lastY
         isChangeVisible ==
           IsPullClose(offsetClientY, window.innerHeight, canPullClose)
     IN  IF IsNext(offsetClientX, photoIndex, Len(images))
         THEN HandleIndexChange(photoIndex + 1, TRUE, "handleReachUp")
         ELSE IF IsPrevious(offsetClientX, photoIndex)
         THEN HandleIndexChange(photoIndex - 1, TRUE, "handleReachUp")
         ELSE /\ touched' = FALSE
              /\ SetIndexAndTranslate(
                   photoIndex,
                   RestTranslateX(window.innerWidth, photoIndex), index)
              /\ lastClientX' = undefined
              /\ lastClientY' = undefined
              /\ backdropOpacity' = defaultOpacity * OpacityDen
              /\ overlayVisible' = IF isChangeVisible THEN TRUE
                                   ELSE overlayVisible
              /\ Observe("handleReachUp",
                         IF isChangeVisible THEN 1 ELSE 0, << >>)
              /\ UNCHANGED <<shouldTransition, canPullClose, images, index,
                             env>>
  /\ gestureZoomed' = TRUE

\* the banner's close button and the onClose handed to overlayRender are
\* props.onClose itself
PropsOnClose(from) ==
  /\ mounted
  /\ SetIndexAndTranslate(photoIndex, translateX, index)
  /\ Observe(from, 1, << >>)
  /\ UNCHANGED <<touched, shouldTransition, lastClientX, lastClientY,
                 backdropOpacity, overlayVisible, canPullClose, images, index,
                 env, gestureZoomed>>

\* the parent renders the slider again (the image list is fixed; a
\* controlled slider stays controlled)
PropsChange(nextIndex) ==
  /\ mounted
  /\ (index = undefined) = (nextIndex = undefined)
  /\ index' = nextIndex
  /\ SetIndexAndTranslate(photoIndex, translateX, nextIndex)
  /\ Observe("render", 0, << >>)
  /\ UNCHANGED <<touched, shouldTransition, lastClientX, lastClientY,
                 backdropOpacity, overlayVisible, canPullClose, images, env,
                 gestureZoomed>>

\* the gestures over the coordinates xs and ys
Gestures(xs, ys) ==
  \/ \E m \in ReachMoves(xs, ys) : HandleReachMove(m[1], m[2], m[3], m[4])
  \/ \E x \in xs, y \in ys : HandleReachUp(x, y)

KeyDown == \E k \in Keys, v \in BOOLEAN : HandleKeyDown(k, v)

Render ==
  \E i \in {undefined} \cup {Num(j) : j \in 0..Max(Len(images) - 1, 0)} :
    PropsChange(i)

Taps ==
  \/ \E c \in BOOLEAN : HandlePhotoTap(c)
  \/ \E c \in BOOLEAN : HandlePhotoMaskTap(c)
  \/ \E from \in {"CloseSVG", "overlayRender"} : PropsOnClose(from)

\* mount, gestures, keys, resizes and renders
Next ==
  \/ ComponentDidMount
  \/ Gestures(ClientXs, ClientYs)
  \/ KeyDown
  \/ WindowResize
  \/ HandleResize
  \/ Render

\* every handler, the gestures over fewer coordinates
NextAll ==
  \/ ComponentDidMount
  \/ Gestures(TapXs, TapYs)
  \/ KeyDown
  \/ WindowResize
  \/ HandleResize
  \/ Render
  \/ Taps

Spec == Init /\ [][Next]_vars
SpecAll == Init /\ [][NextAll]_vars
\* ================================================================ claims
\* the offsets a release at (x, y) measures: 0 when no anchor is recorded
ReleaseDx(x) == IF lastClientX = undefined THEN 0 ELSE x - Val(lastClientX)
ReleaseDy(y) == IF lastClientY = undefined THEN 0 ELSE y - Val(lastClientY)
TurnsNext(x) ==
  ReleaseDx(x) < -maxMoveOffset /\ photoIndex < Len(images) - 1
TurnsPrevious(x) == ReleaseDx(x) > maxMoveOffset /\ photoIndex > 0
Pixels(p) == p * TranslateDen

\* C1 (as stated): on handleReachUp(clientX, clientY), with dx = clientX -
\* lastClientX (0 without anchor), photoIndex becomes photoIndex + 1 iff
\* dx < -maxMoveOffset and photoIndex < images.length - 1, photoIndex - 1 iff
\* dx > maxMoveOffset and photoIndex > 0, and is unchanged in every other case.
C1_AsStated ==
  [][\A x \in ClientXs, y \in ClientYs :
       (call' = "handleReachUp" /\ HandleReachUp(x, y)) =>
         /\ (photoIndex' = photoIndex + 1) <=> TurnsNext(x)
         /\ (photoIndex' = photoIndex - 1) <=> TurnsPrevious(x)
         /\ (~TurnsNext(x) /\ ~TurnsPrevious(x)) => photoIndex' = photoIndex]_vars

\* C1 (amended): the same conditions decide the one call
\* onIndexChange(photoIndex + 1) or onIndexChange(photoIndex - 1) of the
\* release; photoIndex becomes that value when the index prop is undefined or
\* the parent answers by passing it as the index prop, and stays at
\* props.index otherwise; in every other case photoIndex is unchanged and
\* onIndexChange is not called.
C1_PageTurnDecision ==
  [][\A x \in ClientXs, y \in ClientYs :
       (call' = "handleReachUp" /\ HandleReachUp(x, y)) =>
         /\ (onIndexChangeCalls' = <<photoIndex + 1>>) <=> TurnsNext(x)
         /\ (onIndexChangeCalls' = <<photoIndex - 1>>) <=> TurnsPrevious(x)
         /\ (~TurnsNext(x) /\ ~TurnsPrevious(x)) =>
              (photoIndex' = photoIndex /\ onIndexChangeCalls' = << >>)
         /\ (index = undefined \/ index' # index) =>
              /\ (photoIndex' = photoIndex + 1) <=> TurnsNext(x)
              /\ (photoIndex' = photoIndex - 1) <=> TurnsPrevious(x)
         /\ (index # undefined /\ index' = index) =>
              photoIndex' = Val(index)]_vars

\* a release has turned an uncontrolled slider to its last image, and one
\* has turned it back to the first
C1_Witness ==
  /\ call = "handleReachUp"
  /\ index = undefined
  /\ Len(images) >= 2
  /\ onIndexChangeCalls = <<photoIndex>>
  /\ photoIndex = Len(images) - 1

\* C2: a horizontal move with an anchor recorded sets translateX to
\* -(innerWidth + horizontalOffset) * photoIndex + d, d = clientX -
\* lastClientX, with d / 2 for d on the first image with d > 0 or on the last
\* image with d < 0; the first move of a gesture only records the anchor;
\* with a single image both directions are halved.
C2_EdgeClamp ==
  [][\A x \in ClientXs :
       (call' = "handleReachHorizontalMove"
          /\ HandleReachMove("XReach", x, 0, 1)) =>
         IF lastClientX = undefined
         THEN lastClientX' = Num(x) /\ translateX' = translateX
         ELSE LET d == x - Val(lastClientX)
                  rest == -(window.innerWidth + horizontalOffset) * photoIndex
                  edge == \/ (photoIndex = 0 /\ d > 0)
                          \/ (photoIndex = Len(images) - 1 /\ d < 0)
              IN  /\ lastClientX' = lastClientX
                  /\ edge => translateX' = Pixels(rest) + d
                  /\ ~edge => translateX' = Pixels(rest + d)
                  /\ (Len(images) = 1 /\ d # 0) =>
                       translateX' = Pixels(rest) + d]_vars

\* a drag past the first image by an odd number of pixels was halved
C2_Witness ==
  /\ call = "handleReachHorizontalMove"
  /\ lastClientX # undefined
  /\ photoIndex = 0
  /\ translateX > 0
  /\ translateX % TranslateDen = 1

\* C3: handleReachUp calls onClose iff the release turns no page, |clientY -
\* lastClientY| > 0.14 * innerHeight (0 without anchor) and canPullClose; it
\* calls onClose at most once and never together with onIndexChange.
C3_PullToClose ==
  [][\A x \in ClientXs, y \in ClientYs :
       (call' = "handleReachUp" /\ HandleReachUp(x, y)) =>
         /\ (onCloseCalls' >= 1) <=>
              /\ ~TurnsNext(x)
              /\ ~TurnsPrevious(x)
              /\ Abs(ReleaseDy(y)) * PullCloseDen
                   > PullCloseNum * window.innerHeight
              /\ canPullClose
         /\ onCloseCalls' <= 1
         /\ ~(onCloseCalls' >= 1 /\ onIndexChangeCalls' # << >>)]_vars

\* a release has closed the slider
C3_Witness ==
  /\ call = "handleReachUp"
  /\ onCloseCalls = 1
  /\ onIndexChangeCalls = << >>

\* C4: a release or an arrow key that turns the page calls onIndexChange
\* exactly once, with the index turned to, one away from the previous one; a
\* release or key press that turns no page (threshold not exceeded, first or
\* last image, another key, slider not visible) does not call onIndexChange
\* and leaves photoIndex unchanged.
C4_Notified(turnsNext, turnsPrevious) ==
  /\ turnsNext => onIndexChangeCalls' = <<photoIndex + 1>>
  /\ (~turnsNext /\ turnsPrevious) => onIndexChangeCalls' = <<photoIndex - 1>>
  /\ (photoIndex' # photoIndex) =>
       /\ onIndexChangeCalls' = <<photoIndex'>>
       /\ Abs(photoIndex' - photoIndex) = 1
  /\ (~turnsNext /\ ~turnsPrevious) =>
       (onIndexChangeCalls' = << >> /\ photoIndex' = photoIndex)

C4_IndexChangeNotification ==
  [][/\ \A x \in ClientXs, y \in ClientYs :
          (call' = "handleReachUp" /\ HandleReachUp(x, y)) =>
            C4_Notified(TurnsNext(x), TurnsPrevious(x))
     /\ \A k \in Keys, v \in BOOLEAN :
          (call' = "handleKeyDown" /\ HandleKeyDown(k, v)) =>
            C4_Notified(
              v /\ k = "ArrowRight" /\ photoIndex < Len(images) - 1,
              v /\ k = "ArrowLeft" /\ photoIndex > 0)]_vars

\* an arrow key has turned the page to the first image
C4_Witness ==
  /\ call = "handleKeyDown"
  /\ Len(images) >= 2
  /\ onIndexChangeCalls = <<0>>
  /\ photoIndex = 0
RestPixels == -(window.innerWidth + horizontalOffset) * photoIndex

\* C5: with the index prop defined, photoIndex = props.index after every
\* update; a page turn that the parent does not answer leaves photoIndex and
\* the resting translateX at props.index; a render with the same index keeps
\* the translateX of a drag in progress.
C5_Controlled ==
  /\ [](index # undefined =>
          /\ photoIndex = Val(index)
          /\ (onIndexChangeCalls # << >>
                /\ onIndexChangeCalls # <<Val(index)>>) =>
               translateX = Pixels(-(window.innerWidth + horizontalOffset)
                                     * Val(index)))
  /\ [][(call' = "render" /\ index' = index) =>
          (translateX' = translateX /\ photoIndex' = photoIndex
             /\ lastClientX' = lastClientX)]_vars

\* a release asked a controlling parent for the next image and was not
\* answered
C5_Witness ==
  /\ index # undefined
  /\ call = "handleReachUp"
  /\ onIndexChangeCalls = <<Val(index) + 1>>
  /\ photoIndex = Val(index)
  /\ translateX = Pixels(RestPixels)

C7_AsStated ==
  [][(call' = "handleReachUp" /\ gestureZoomed) => onCloseCalls' = 0]_vars

C9_Expected(dist) ==
  LET linear == defaultOpacity * OpacityDen - dist
      capped == IF linear > defaultOpacity * OpacityDen
                THEN defaultOpacity * OpacityDen ELSE linear
  IN  IF capped < 0 THEN 0 ELSE capped

C9_BackdropOpacity ==
  /\ [](/\ 0 <= backdropOpacity
        /\ backdropOpacity <= defaultOpacity * OpacityDen
        /\ \A l \in ClientYs, a \in ClientYs, b \in ClientYs :
             Abs(a - l) <= Abs(b - l) => Opacity(a, l) >= Opacity(b, l))
  /\ [][\A y \in ClientYs, sc \in Scales :
          (call' = "handleReachVerticalMove"
             /\ HandleReachMove("YReach", 0, y, sc)) =>
            IF lastClientY = undefined
            THEN lastClientY' = Num(y) /\ backdropOpacity' = backdropOpacity
            ELSE /\ lastClientY' = lastClientY
                 /\ canPullClose' = (sc = 1)
                 /\ backdropOpacity' =
                      IF sc = 1 THEN C9_Expected(Abs(y - Val(lastClientY)))
                      ELSE defaultOpacity * OpacityDen]_vars

\* an upward pull has dimmed the backdrop without reaching 0
C9_Witness ==
  /\ call = "handleReachVerticalMove"
  /\ lastClientY # undefined
  /\ Val(lastClientY) > 0
  /\ 0 < backdropOpacity
  /\ backdropOpacity < defaultOpacity * OpacityDen

\* C10 (as stated): after every handleReachUp touched = false, no anchor is
\* recorded, translateX = -(innerWidth + horizontalOffset) * photoIndex and
\* backdropOpacity = defaultOpacity.
C10_AsStated ==
  call = "handleReachUp" =>
    /\ touched = FALSE
    /\ lastClientX = undefined
    /\ lastClientY = undefined
    /\ translateX = Pixels(RestPixels)
    /\ backdropOpacity = defaultOpacity * OpacityDen
\* what C11 says of every key but the arrows within bounds
C11_Gated(k, v) ==
  /\ ~v => (UNCHANGED <<state, props>>
              /\ onCloseCalls' = 0 /\ onIndexChangeCalls' = << >>)
  /\ (v /\ k = "Escape") =>
       (onCloseCalls' = 1 /\ onIndexChangeCalls' = << >>)
  /\ (v /\ k \notin {"ArrowLeft", "ArrowRight", "Escape"}) =>
       (UNCHANGED <<state, props>>
          /\ onCloseCalls' = 0 /\ onIndexChangeCalls' = << >>)
  /\ (v /\ k = "ArrowLeft" /\ photoIndex = 0) => photoIndex' = photoIndex
  /\ (v /\ k = "ArrowRight" /\ photoIndex >= Len(images) - 1) =>
       photoIndex' = photoIndex
C11_StepsLeft(k, v) == v /\ k = "ArrowLeft" /\ photoIndex > 0
C11_StepsRight(k, v) ==
  v /\ k = "ArrowRight" /\ photoIndex < Len(images) - 1

\* C11 (as stated): with props.visible false handleKeyDown changes no state
\* and calls neither onClose nor onIndexChange, for every key; with visible
\* true ArrowLeft / ArrowRight move photoIndex by one step within bounds with
\* shouldTransition = false, Escape calls onClose exactly once, and any
\* other key changes nothing.
C11_AsStated ==
  [][\A k \in Keys, v \in BOOLEAN :
       (call' = "handleKeyDown" /\ HandleKeyDown(k, v)) =>
         /\ C11_Gated(k, v)
         /\ C11_StepsLeft(k, v) =>
              (photoIndex' = photoIndex - 1 /\ shouldTransition' = FALSE)
         /\ C11_StepsRight(k, v) =>
              (photoIndex' = photoIndex + 1 /\ shouldTransition' = FALSE)]_vars

\* C11 (amended): as stated, except that an arrow key within bounds calls
\* handleIndexChange(photoIndex - 1 or + 1, false): shouldTransition becomes
\* false, onIndexChange is called with that index, and photoIndex becomes it
\* when the index prop is undefined or the parent answers by passing it as
\* the index prop, and stays at props.index otherwise.
C11_Stepped(target) ==
  /\ shouldTransition' = FALSE
  /\ onIndexChangeCalls' = <<target>>
  /\ onCloseCalls' = 0
  /\ (index = undefined \/ index' # index) => photoIndex' = target
  /\ (index # undefined /\ index' = index) => photoIndex' = Val(index)

C11_KeyboardGated ==
  [][\A k \in Keys, v \in BOOLEAN :
       (call' = "handleKeyDown" /\ HandleKeyDown(k, v)) =>
         /\ C11_Gated(k, v)
         /\ C11_StepsLeft(k, v) => C11_Stepped(photoIndex - 1)
         /\ C11_StepsRight(k, v) => C11_Stepped(photoIndex + 1)]_vars

\* an arrow key has moved an uncontrolled slider to its last image, without
\* transition
C11_Witness ==
  /\ call = "handleKeyDown"
  /\ index = undefined
  /\ Len(images) >= 2
  /\ photoIndex = Len(images) - 1
  /\ onIndexChangeCalls = <<photoIndex>>
  /\ shouldTransition = FALSE
\* C12 (as stated): every call of props.onClose made by PhotoSlider (Escape,
\* mask tap, photo tap with photoClosable, pull-to-close release, the
\* banner's close button, the onClose handed to overlayRender) leaves
\* overlayVisible = true.
C12_AsStated ==
  onCloseCalls >= 1 => overlayVisible = TRUE
====
